---- MODULE Spec2Model ----
(***************************************************************************)
(* Model of the carina command line client (src/main.go): one invocation   *)
(* of one command, from the parsed command descriptor to the value the     *)
(* command's action returns.  Strings that the program takes apart (paths, *)
(* cluster names, file names) are sequences of one-character strings; the  *)
(* API client, the tab writer and the file system are external, so each    *)
(* of their calls returns one of the results its signature allows.         *)
(***************************************************************************)
EXTENDS Integers, Sequences, FiniteSets, TLC

VARIABLES
    cmd,            \* the command kingpin selected
    ClusterName,    \* ClusterCommand.ClusterName
    Wait,           \* WaitClusterCommand.Wait
    Nodes,          \* CreateCommand.Nodes / GrowCommand.Nodes
    AutoScale,      \* CreateCommand.AutoScale
    Path,           \* CredentialsCommand.Path
    ClusterClient,  \* Context.ClusterClient
    TabWriter,      \* Context.TabWriter: buffered rows and rows sent to stdout
    cluster,        \* local `cluster` of clusterApplyWait (a pointer)
    err,            \* local `err` of clusterApplyWait
    pc,             \* position of the invocation
    result,         \* what the action (or pre-action) returned
    trace           \* the calls made on the external collaborators, in order

vars == <<cmd, ClusterName, Wait, Nodes, AutoScale, Path, ClusterClient,
          TabWriter, cluster, err, pc, result, trace>>

descriptor == <<cmd, ClusterName, Wait, Nodes, AutoScale, Path>>

----------------------------------------------------------------------------
(* Bounds of the model *)

\* the polling loop is followed for at most this many re-fetches
MaxGets == 3

\* List returns at most this many clusters
MaxList == 2
MaxLogged == 2

----------------------------------------------------------------------------
(* Program constants *)

startupFudgeFactor == 40
waitBetween == 10
FileMode == 384
DirMode == 511

StatusNew == "new"
StatusBuilding == "building"
StatusRebuildingSwarm == "rebuilding-swarm"

NodesError == "nodes must be >= 1"

----------------------------------------------------------------------------
(* Values *)

Commands == {"list", "get", "create", "grow", "rebuild", "delete", "credentials"}

\* statuses the backend may report: the three the loop polls on, and others
Statuses == {StatusNew, StatusBuilding, StatusRebuildingSwarm,
             "active", "error", ""}

\* errors an API call may return
APIErrors == {"api-error-1", "api-error-2"}
AuthError == "auth-error"
WriteError == "write-error"
FlushError == "flush-error"
MkdirError == "mkdir-error"
FileError == "file-error"
NoError == "nil"

\* cluster names given on the command line; credentials, the one command that
\* takes the name apart (as a path), gets the names that are not plain ones
PlainNames == { <<"a">>, <<"a", "b">> }
ClusterNames == PlainNames \cup { <<".">>, <<"a", "/">>, <<"a", "/", "b">>,
                                   <<"a", "/", ".", ".">> }
NamesOf(c) == CASE c = "list" -> { <<>> }
                [] c = "credentials" -> ClusterNames
                [] OTHER -> PlainNames

\* values of --nodes
NodeCounts == {0, 1, 3}
\* the --nodes values of create: one on each side of the test Nodes < 1
CreateNodeCounts == {0, 1}

\* values of --path ("" when the flag is absent)
Paths == { <<>>, <<"d">>, <<".", "/", "d">> }

Flavor0 == <<"f">>

\* what the backend decides about a snapshot besides its status
Shapes == { [Nodes |-> 1, AutoScale |-> FALSE], [Nodes |-> 12, AutoScale |-> TRUE] }

\* a *libcarina.Cluster: the empty sequence is nil, <<c>> points to c
Nil == <<>>
Ptr(c) == <<c>>
Deref(p) == p[1]

Snapshot(name, shape, status) ==
    [ClusterName |-> name, Flavor |-> Flavor0, Nodes |-> shape.Nodes,
     AutoScale |-> shape.AutoScale, Status |-> status]

\* the results of an API call that returns (*Cluster, error)
Responses(name) ==
    { [cluster |-> Ptr(Snapshot(name, sh, st)), err |-> NoError] :
          sh \in Shapes, st \in Statuses }
    \cup { [cluster |-> Nil, err |-> e] : e \in APIErrors }

NoArg == [Nodes |-> 0, AutoScale |-> FALSE]

\* the results of List
ListSnapshots == { Snapshot(n, sh, st) :
                     n \in {<<"a">>, <<"b">>}, sh \in Shapes, st \in {"active", StatusBuilding} }
ListResponses ==
    { [list |-> l, err |-> NoError] :
          l \in UNION { [1..k -> ListSnapshots] : k \in 0..MaxList } }
    \cup { [list |-> <<>>, err |-> e] : e \in APIErrors }

\* a credentials bundle: file name -> content
FileNames == { <<"c">>, <<"k">>, <<"e">> }
Contents == {"x", "y"}
Bundles == UNION { [S -> Contents] : S \in SUBSET FileNames }

\* the results of GetCredentials
CredResponses ==
    { [creds |-> <<[Files |-> f]>>, err |-> NoError] : f \in Bundles }
    \cup { [creds |-> Nil, err |-> e] : e \in APIErrors }

\* the orders in which range may visit the keys of a map
Orders(S) == { o \in [1..Cardinality(S) -> S] :
                 \A i, j \in 1..Cardinality(S) : o[i] = o[j] => i = j }

----------------------------------------------------------------------------
(* Events of the trace *)

EvCall(api, name, arg, resp) ==
    [ev |-> "call", api |-> api, name |-> name, arg |-> arg, resp |-> resp]
EvSleep(d) == [ev |-> "sleep", d |-> d]
EvCheck(status, cont) == [ev |-> "check", status |-> status, cont |-> cont]
EvWrite(row, e) == [ev |-> "write", row |-> row, err |-> e]
EvFlush(e) == [ev |-> "flush", err |-> e]
EvMkdir(p, mode, e) == [ev |-> "mkdir", path |-> p, mode |-> mode, err |-> e]
EvWriteFile(p, b, mode, e) ==
    [ev |-> "writeFile", path |-> p, content |-> b, mode |-> mode, err |-> e]
EvHint(p) == [ev |-> "hint", path |-> p]

----------------------------------------------------------------------------
(* Rendering a row *)

Digit(d) == CASE d = 0 -> "0" [] d = 1 -> "1" [] d = 2 -> "2" [] d = 3 -> "3"
              [] d = 4 -> "4" [] d = 5 -> "5" [] d = 6 -> "6" [] d = 7 -> "7"
              [] d = 8 -> "8" [] d = 9 -> "9"

RECURSIVE FormatInt(_)
FormatInt(n) ==
    IF n < 0 THEN <<"-">> \o FormatInt(0 - n)
    ELSE IF n < 10 THEN <<Digit(n)>>
    ELSE FormatInt(n \div 10) \o <<Digit(n % 10)>>

FormatBool(b) == IF b THEN <<"t", "r", "u", "e">> ELSE <<"f", "a", "l", "s", "e">>

\* the fields strings.Join puts between tabs
Row(c) == <<c.ClusterName, c.Flavor, FormatInt(c.Nodes), FormatBool(c.AutoScale), c.Status>>

\* the header fields, each word kept as one token
HeaderRow == << <<"ClusterName">>, <<"Flavor">>, <<"Nodes">>, <<"AutoScale">>, "Status" >>

\* w.Write: the row is buffered unless the write fails
TabWrite(w, row, e) ==
    IF e = NoError THEN [w EXCEPT !.buf = Append(@, row)] ELSE w

\* w.Flush: the buffer goes to stdout unless that fails; it is reset either way
TabFlush(w, e) ==
    IF e = NoError THEN [buf |-> <<>>, out |-> w.out \o w.buf]
    ELSE [w EXCEPT !.buf = <<>>]

----------------------------------------------------------------------------
(* Paths: path.Clean and path.Join on sequences of characters *)

\* Clean's step back over the last element of out, down to dotdot
RECURSIVE Backtrack(_, _, _)
Backtrack(out, w, dotdot) ==
    IF w > dotdot /\ out[w + 1] # "/"
      THEN Backtrack(out, w - 1, dotdot)
      ELSE SubSeq(out, 1, w)

\* the index after the path element that starts at r
RECURSIVE ElemEnd(_, _)
ElemEnd(p, r) == IF r <= Len(p) /\ p[r] # "/" THEN ElemEnd(p, r + 1) ELSE r

\* the loop of path.Clean: r is the next character to read, out the buffer
RECURSIVE CleanLoop(_, _, _, _, _)
CleanLoop(p, r, out, dotdot, rooted) ==
    LET n == Len(p) IN
    IF r > n THEN out
    ELSE IF p[r] = "/" THEN CleanLoop(p, r + 1, out, dotdot, rooted)
    ELSE IF p[r] = "." /\ (r = n \/ p[r + 1] = "/")
      THEN CleanLoop(p, r + 1, out, dotdot, rooted)
    ELSE IF p[r] = "." /\ p[r + 1] = "." /\ (r + 1 = n \/ p[r + 2] = "/")
      THEN IF Len(out) > dotdot
             THEN CleanLoop(p, r + 2, Backtrack(out, Len(out) - 1, dotdot), dotdot, rooted)
           ELSE IF ~rooted
             THEN LET o2 == (IF Len(out) > 0 THEN Append(out, "/") ELSE out) \o <<".", ".">>
                  IN CleanLoop(p, r + 2, o2, Len(o2), rooted)
           ELSE CleanLoop(p, r + 2, out, dotdot, rooted)
    ELSE LET o1 == IF (rooted /\ Len(out) # 1) \/ (~rooted /\ Len(out) # 0)
                     THEN Append(out, "/") ELSE out
             e == ElemEnd(p, r)
         IN CleanLoop(p, e, o1 \o SubSeq(p, r, e - 1), dotdot, rooted)

Clean(p) ==
    IF p = <<>> THEN <<".">>
    ELSE LET rooted == p[1] = "/"
             out == IF rooted THEN CleanLoop(p, 2, <<"/">>, 1, TRUE)
                              ELSE CleanLoop(p, 1, <<>>, 0, FALSE)
         IN IF out = <<>> THEN <<".">> ELSE out

\* path.Join of a directory and a file name
Join(dir, fname) ==
    IF dir = <<>> /\ fname = <<>> THEN <<>>
    ELSE IF dir = <<>> THEN Clean(fname)
    ELSE IF fname = <<>> THEN Clean(dir)
    ELSE Clean(dir \o <<"/">> \o fname)

----------------------------------------------------------------------------
(* The polling predicate *)

\* NonTerminal with the rebuilding status forgotten
NonTerminalNoRebuilding(status) ==
    status = StatusNew \/ status = StatusBuilding

\* NonTerminal that only knows the status of a new cluster
NonTerminalOnlyNew(status) == status = StatusNew

NonTerminal(status) ==
    status = StatusNew \/ status = StatusBuilding \/ status = StatusRebuildingSwarm

----------------------------------------------------------------------------
Init ==
    /\ cmd \in Commands
    /\ ClusterName \in NamesOf(cmd)
    /\ Wait \in (IF cmd \in {"create", "rebuild"} THEN BOOLEAN ELSE {FALSE})
    /\ Nodes \in (CASE cmd = "create" -> CreateNodeCounts
                    [] cmd = "grow" -> NodeCounts
                    [] OTHER -> {0})
    /\ AutoScale \in (IF cmd = "create" THEN BOOLEAN ELSE {FALSE})
    /\ Path \in (IF cmd = "credentials" THEN Paths ELSE {<<>>})
    /\ ClusterClient = "nil"
    /\ TabWriter = [buf |-> <<>>, out |-> <<>>]
    /\ cluster = Nil
    /\ err = NoError
    /\ pc = "preaction"
    /\ result = "running"
    /\ trace = <<>>

\* Auth whose error does not keep the action from running
AuthErrorIgnored ==
    /\ pc = "preaction"
    /\ \E e \in {NoError, AuthError} :
         /\ ClusterClient' = (IF e = NoError THEN "client" ELSE "nil")
         /\ trace' = Append(trace, [ev |-> "auth", err |-> e])
         /\ pc' = "action" /\ result' = result
    /\ UNCHANGED <<descriptor, TabWriter, cluster, err>>

\* Command.Auth, the pre-action of every command
Auth ==
    /\ pc = "preaction"
    /\ \E e \in {NoError, AuthError} :
         /\ ClusterClient' = (IF e = NoError THEN "client" ELSE "nil")
         /\ trace' = Append(trace, [ev |-> "auth", err |-> e])
         /\ IF e = NoError
              THEN pc' = "action" /\ result' = result
              ELSE pc' = "done" /\ result' = e
    /\ UNCHANGED <<descriptor, TabWriter, cluster, err>>

----------------------------------------------------------------------------
(* clusterApplyWait, the action of create and rebuild *)

\* the op passed by Create: validates, then calls ClusterClient.Create
CreateOp ==
    /\ pc = "action" /\ cmd = "create"
    /\ IF Nodes < 1
         THEN /\ cluster' = Nil
              /\ err' = NodesError
              /\ trace' = trace
         ELSE \E resp \in Responses(ClusterName) :
              /\ cluster' = resp.cluster
              /\ err' = resp.err
              /\ trace' = Append(trace, EvCall("Create", ClusterName,
                                   [Nodes |-> Nodes, AutoScale |-> AutoScale], resp))
    /\ pc' = IF Wait THEN "grace" ELSE "output"
    /\ UNCHANGED <<descriptor, ClusterClient, TabWriter, result>>

\* RebuildOp that ignores the wait flag
RebuildOpAlwaysWaits ==
    /\ pc = "action" /\ cmd = "rebuild"
    /\ \E resp \in Responses(ClusterName) :
         /\ cluster' = resp.cluster
         /\ err' = resp.err
         /\ trace' = Append(trace, EvCall("Rebuild", ClusterName, NoArg, resp))
    /\ pc' = "grace"
    /\ UNCHANGED <<descriptor, ClusterClient, TabWriter, result>>

\* the op passed by Rebuild
RebuildOp ==
    /\ pc = "action" /\ cmd = "rebuild"
    /\ \E resp \in Responses(ClusterName) :
         /\ cluster' = resp.cluster
         /\ err' = resp.err
         /\ trace' = Append(trace, EvCall("Rebuild", ClusterName, NoArg, resp))
    /\ pc' = IF Wait THEN "grace" ELSE "output"
    /\ UNCHANGED <<descriptor, ClusterClient, TabWriter, result>>

\* Grace that sleeps only when the snapshot at hand will be polled
GraceOnlyIfPolling ==
    /\ pc = "grace"
    /\ trace' = IF cluster # Nil /\ NonTerminal(Deref(cluster).Status)
                   THEN Append(trace, EvSleep(startupFudgeFactor))
                   ELSE trace
    /\ pc' = "check"
    /\ UNCHANGED <<descriptor, ClusterClient, TabWriter, cluster, err, result>>

\* Grace without the sleep
GraceSkipped ==
    /\ pc = "grace"
    /\ pc' = "check"
    /\ UNCHANGED <<descriptor, ClusterClient, TabWriter, cluster, err, result, trace>>

\* time.Sleep(startupFudgeFactor)
Grace ==
    /\ pc = "grace"
    /\ trace' = Append(trace, EvSleep(startupFudgeFactor))
    /\ pc' = "check"
    /\ UNCHANGED <<descriptor, ClusterClient, TabWriter, cluster, err, result>>

\* the loop condition; reading cluster.Status through a nil pointer panics
Check ==
    /\ pc = "check"
    /\ IF cluster = Nil
         THEN /\ pc' = "done"
              /\ result' = "panic"
              /\ trace' = trace
         ELSE /\ pc' = IF NonTerminal(Deref(cluster).Status) THEN "poll" ELSE "output"
              /\ result' = result
              /\ trace' = Append(trace, EvCheck(Deref(cluster).Status,
                                                NonTerminal(Deref(cluster).Status)))
    /\ UNCHANGED <<descriptor, ClusterClient, TabWriter, cluster, err>>

NumGets == Cardinality({i \in 1..Len(trace) :
                          trace[i].ev = "call" /\ trace[i].api = "Get"})

\* Poll that repeats the mutating call instead of re-fetching
PollRepeatsOp ==
    /\ pc = "poll"
    /\ NumGets < MaxGets
    /\ \E resp \in Responses(ClusterName) :
         /\ cluster' = resp.cluster
         /\ err' = resp.err
         /\ trace' = trace \o << EvSleep(waitBetween),
                                 EvCall(IF NumGets = 0 THEN "Get" ELSE "Rebuild",
                                        ClusterName, NoArg, resp) >>
         /\ pc' = IF resp.err # NoError THEN "output" ELSE "check"
    /\ UNCHANGED <<descriptor, ClusterClient, TabWriter, result>>

\* Poll without the break on a failed re-fetch
PollNoBreak ==
    /\ pc = "poll"
    /\ NumGets < MaxGets
    /\ \E resp \in Responses(ClusterName) :
         /\ cluster' = resp.cluster
         /\ err' = resp.err
         /\ trace' = trace \o << EvSleep(waitBetween),
                                 EvCall("Get", ClusterName, NoArg, resp) >>
         /\ pc' = "check"
    /\ UNCHANGED <<descriptor, ClusterClient, TabWriter, result>>

\* the loop body: sleep, re-fetch, break on error
Poll ==
    /\ pc = "poll"
    /\ NumGets < MaxGets
    /\ \E resp \in Responses(ClusterName) :
         /\ cluster' = resp.cluster
         /\ err' = resp.err
         /\ trace' = trace \o << EvSleep(waitBetween),
                                 EvCall("Get", ClusterName, NoArg, resp) >>
         /\ pc' = IF resp.err # NoError THEN "output" ELSE "check"
    /\ UNCHANGED <<descriptor, ClusterClient, TabWriter, result>>

\* writeCluster that refuses a snapshot whose status names a failure
writeClusterErrOnFailedStatus(c, ioErr) ==
    IF c.Status = "error" THEN "status-error" ELSE ioErr

\* the error returned by writeCluster
writeClusterErr(c, ioErr) == ioErr

\* Render that flushes the sink on the error path too
RenderFlushOnError(c, e, tr) ==
    IF e # NoError
      THEN /\ result' = e
           /\ TabWriter' = TabFlush(TabWriter, NoError)
           /\ trace' = Append(tr, EvFlush(NoError))
      ELSE \E we \in {NoError, WriteError}, fe \in {NoError, FlushError} :
           IF we # NoError
             THEN /\ result' = we
                  /\ TabWriter' = TabWrite(TabWriter, Row(Deref(c)), we)
                  /\ trace' = Append(tr, EvWrite(Row(Deref(c)), we))
             ELSE /\ result' = fe
                  /\ TabWriter' = TabFlush(TabWrite(TabWriter, Row(Deref(c)), we), fe)
                  /\ trace' = tr \o << EvWrite(Row(Deref(c)), we), EvFlush(fe) >>

\* Render that writes the snapshot of the first call of tr, not the latest
RenderFirstSnapshot(c, e, tr) ==
    LET i == CHOOSE i \in 1..Len(tr) :
                 /\ tr[i].ev = "call"
                 /\ \A j \in 1..(i - 1) : tr[j].ev # "call"
        first == Deref(tr[i].resp.cluster)
    IN IF e # NoError
         THEN /\ result' = e
              /\ TabWriter' = TabWriter
              /\ trace' = tr
         ELSE \E we \in {NoError, WriteError}, fe \in {NoError, FlushError} :
              IF we # NoError
                THEN /\ result' = we
                     /\ TabWriter' = TabWrite(TabWriter, Row(first), we)
                     /\ trace' = Append(tr, EvWrite(Row(first), we))
                ELSE /\ result' = fe
                     /\ TabWriter' = TabFlush(TabWrite(TabWriter, Row(first), we), fe)
                     /\ trace' = tr \o << EvWrite(Row(first), we), EvFlush(fe) >>

\* the tail shared by clusterApply and clusterApplyWait, after the calls of
\* trace tr: return the error, or write the row and flush
Render(c, e, tr) ==
    IF e # NoError
      THEN /\ result' = e
           /\ TabWriter' = TabWriter
           /\ trace' = tr
      ELSE \E we \in {NoError, WriteError}, fe \in {NoError, FlushError} :
           LET werr == writeClusterErr(Deref(c), we) IN
           IF werr # NoError
             THEN /\ result' = werr
                  /\ TabWriter' = TabWrite(TabWriter, Row(Deref(c)), werr)
                  /\ trace' = Append(tr, EvWrite(Row(Deref(c)), werr))
             ELSE /\ result' = fe
                  /\ TabWriter' = TabFlush(TabWrite(TabWriter, Row(Deref(c)), werr), fe)
                  /\ trace' = tr \o << EvWrite(Row(Deref(c)), werr), EvFlush(fe) >>

Output ==
    /\ pc = "output"
    /\ Render(cluster, err, trace)
    /\ pc' = "done"
    /\ UNCHANGED <<descriptor, ClusterClient, cluster, err>>

----------------------------------------------------------------------------
(* clusterApply, the action of get, delete and grow *)

clusterApply(api, arg) ==
    /\ \E resp \in Responses(ClusterName) :
         Render(resp.cluster, resp.err,
                Append(trace, EvCall(api, ClusterName, arg, resp)))
    /\ pc' = "done"
    /\ UNCHANGED <<descriptor, ClusterClient, cluster, err>>

Get ==
    /\ pc = "action" /\ cmd = "get"
    /\ clusterApply("Get", NoArg)

Delete ==
    /\ pc = "action" /\ cmd = "delete"
    /\ clusterApply("Delete", NoArg)

Grow ==
    /\ pc = "action" /\ cmd = "grow"
    /\ clusterApply("Grow", [Nodes |-> Nodes, AutoScale |-> FALSE])

----------------------------------------------------------------------------
(* List, the action of list *)

\* the rows List writes: the header, then one row per cluster
ListRows(l) == <<HeaderRow>> \o [i \in 1..Len(l) |-> Row(l[i])]

\* the writes of rows 1..m, the k-th failing (k = 0: none fails)
RECURSIVE WriteEvents(_, _, _)
WriteEvents(rows, m, k) ==
    IF m = 0 THEN <<>>
    ELSE Append(WriteEvents(rows, m - 1, k),
                EvWrite(rows[m], IF m = k THEN WriteError ELSE NoError))

List ==
    /\ pc = "action" /\ cmd = "list"
    /\ \E lr \in ListResponses :
         LET tr1 == Append(trace, EvCall("List", <<>>, NoArg, lr))
             rows == ListRows(lr.list)
         IN IF lr.err # NoError
              THEN /\ result' = lr.err
                   /\ trace' = tr1
                   /\ TabWriter' = TabWriter
              ELSE \E k \in 0..Len(rows), fe \in {NoError, FlushError} :
                   IF k # 0
                     THEN /\ result' = WriteError
                          /\ trace' = tr1 \o WriteEvents(rows, k, k)
                          /\ TabWriter' = [TabWriter EXCEPT !.buf = @ \o SubSeq(rows, 1, k - 1)]
                     ELSE /\ result' = fe
                          /\ trace' = Append(tr1 \o WriteEvents(rows, Len(rows), 0), EvFlush(fe))
                          /\ TabWriter' = TabFlush([TabWriter EXCEPT !.buf = @ \o rows], fe)
    /\ pc' = "done"
    /\ UNCHANGED <<descriptor, ClusterClient, cluster, err>>

----------------------------------------------------------------------------
(* Download, the action of credentials *)

\* writeCredentials that goes on to the remaining files after a failed write
writeCredentialsKeepsGoing(files, order, pth, m, k) ==
    [ i \in 1..Cardinality(DOMAIN files) |->
        EvWriteFile(Join(pth, order[i]), files[order[i]], FileMode,
                    IF i = k THEN FileError ELSE NoError) ]

\* the ioutil.WriteFile calls of writeCredentials: the files in the order the
\* map yields them, up to the m-th; the k-th fails (k = 0: none fails)
RECURSIVE writeCredentials(_, _, _, _, _)
writeCredentials(files, order, pth, m, k) ==
    IF m = 0 THEN <<>>
    ELSE Append(writeCredentials(files, order, pth, m - 1, k),
                EvWriteFile(Join(pth, order[m]), files[order[m]], FileMode,
                            IF m = k THEN FileError ELSE NoError))

\* ResolvePath that falls back to the working directory
ResolvePathCwd(path, name) == IF path = <<>> THEN <<".">> ELSE path

\* ResolvePath that puts the cluster name in place of a given --path
ResolvePathAlwaysName(path, name) == name

\* the destination Download resolves: --path, or the cluster name
ResolvePath(path, name) == IF path = <<>> THEN name ELSE path

Download ==
    /\ pc = "action" /\ cmd = "credentials"
    /\ \E cr \in CredResponses :
         LET tr1 == Append(trace, EvCall("GetCredentials", ClusterName, NoArg, cr)) IN
         IF cr.err # NoError
           THEN /\ result' = cr.err
                /\ trace' = tr1
                /\ UNCHANGED <<Path, TabWriter>>
           ELSE LET files == Deref(cr.creds).Files
                    n == Cardinality(DOMAIN files)
                    p == Clean(ResolvePath(Path, ClusterName))
                IN /\ Path' = ResolvePath(Path, ClusterName)
                   /\ \E me \in {NoError, MkdirError}, order \in Orders(DOMAIN files),
                         k \in 0..n, fe \in {NoError, FlushError} :
                        LET merr == IF p # <<".">> THEN me ELSE NoError
                            tr2 == IF p # <<".">> THEN Append(tr1, EvMkdir(p, DirMode, me))
                                                  ELSE tr1
                        IN IF merr # NoError
                             THEN /\ result' = merr
                                  /\ trace' = tr2
                                  /\ TabWriter' = TabWriter
                           ELSE IF k # 0
                             THEN /\ result' = FileError
                                  /\ trace' = tr2 \o writeCredentials(files, order, p, k, k)
                                  /\ TabWriter' = TabWriter
                           ELSE /\ result' = fe
                                /\ trace' = tr2 \o writeCredentials(files, order, p, n, 0)
                                                 \o << EvHint(p), EvFlush(fe) >>
                                /\ TabWriter' = TabFlush(TabWriter, fe)
    /\ pc' = "done"
    /\ UNCHANGED <<cmd, ClusterName, Wait, Nodes, AutoScale, ClusterClient, cluster, err>>

----------------------------------------------------------------------------
(* main: what follows the return of app.Parse *)

\* the exit status of the process: 0 when Parse returned no error, 2 when the
\* action panicked, 1 when MustParse was handed an error
ExitCode(r) == IF r = NoError THEN 0 ELSE IF r = "panic" THEN 2 ELSE 1

\* kingpin.MustParse(app.Parse(os.Args[1:])): with no error main returns; with
\* an error MustParse calls the package-level Fatalf, which reports through
\* kingpin.CommandLine and exits with its os.Exit, so the handler that New
\* installs on app with app.Terminate (lines 100-104, Flush then os.Exit) is
\* not called; a panic unwinds main.  In no case is the TabWriter touched.
MustParse ==
    /\ pc = "done"
    /\ pc' = "exited"
    /\ UNCHANGED <<descriptor, ClusterClient, TabWriter, cluster, err, result, trace>>

----------------------------------------------------------------------------
Next ==
    \/ Auth
    \/ CreateOp
    \/ RebuildOp
    \/ Grace
    \/ Check
    \/ Poll
    \/ Output
    \/ Get
    \/ Delete
    \/ Grow
    \/ List
    \/ Download
    \/ MustParse

Spec == Init /\ [][Next]_vars

----------------------------------------------------------------------------
(* The wait loop without a bound on its passes.  The loop of lines 261-267
   has no counter and no deadline, so the number of re-fetches is unbounded;
   here the loop runs on for ever while the trace keeps the events of its
   first MaxLogged passes only, which keeps the states finite. *)

NumChecks == Cardinality({i \in 1..Len(trace) : trace[i].ev = "check"})

\* the loop condition, as Check
CheckLive ==
    /\ pc = "check"
    /\ IF cluster = Nil
         THEN /\ pc' = "done"
              /\ result' = "panic"
              /\ trace' = trace
         ELSE /\ pc' = IF NonTerminal(Deref(cluster).Status) THEN "poll" ELSE "output"
              /\ result' = result
              /\ trace' = IF NumChecks <= MaxLogged
                             THEN Append(trace, EvCheck(Deref(cluster).Status,
                                                  NonTerminal(Deref(cluster).Status)))
                             ELSE trace
    /\ UNCHANGED <<descriptor, ClusterClient, TabWriter, cluster, err>>

\* PollLive that gives up after MaxLogged re-fetches and renders what it has
PollLiveGivesUp ==
    /\ pc = "poll"
    /\ IF NumGets >= MaxLogged
         THEN /\ pc' = "output"
              /\ UNCHANGED <<cluster, err, trace>>
         ELSE \E resp \in Responses(ClusterName) :
              /\ cluster' = resp.cluster
              /\ err' = resp.err
              /\ trace' = trace \o << EvSleep(waitBetween),
                                      EvCall("Get", ClusterName, NoArg, resp) >>
              /\ pc' = IF resp.err # NoError THEN "output" ELSE "check"
    /\ UNCHANGED <<descriptor, ClusterClient, TabWriter, result>>

\* the loop body, as Poll, with no limit on the number of re-fetches
PollLive ==
    /\ pc = "poll"
    /\ \E resp \in Responses(ClusterName) :
         /\ cluster' = resp.cluster
         /\ err' = resp.err
         /\ trace' = IF NumGets < MaxLogged
                        THEN trace \o << EvSleep(waitBetween),
                                         EvCall("Get", ClusterName, NoArg, resp) >>
                        ELSE trace
         /\ pc' = IF resp.err # NoError THEN "output" ELSE "check"
    /\ UNCHANGED <<descriptor, ClusterClient, TabWriter, result>>

\* create and rebuild run with --wait on one cluster name
InitLive ==
    /\ Init
    /\ cmd \in {"create", "rebuild"} /\ Wait
    /\ ClusterName = <<"a">> /\ Nodes <= 1 /\ ~AutoScale

NextLive ==
    \/ Auth
    \/ CreateOp
    \/ RebuildOp
    \/ Grace
    \/ CheckLive
    \/ PollLive
    \/ Output
    \/ MustParse

\* the process is sequential and is always scheduled: time.Sleep returns, a
\* blocking API call returns a snapshot or an error, a write returns; so a
\* step that can be taken is taken
SpecLive == InitLive /\ [][NextLive]_vars /\ WF_vars(NextLive)

----------------------------------------------------------------------------
(* Reading the trace *)

Idx(kind) == { i \in 1..Len(trace) : trace[i].ev = kind }
CallIdx == Idx("call")
ApiIdx(apis) == { i \in CallIdx : trace[i].api \in apis }
GetIdx == ApiIdx({"Get"})
MutIdx == ApiIdx({"Create", "Rebuild"})
SleepIdx(d) == { i \in Idx("sleep") : trace[i].d = d }
WriteIdx == Idx("write")
FlushIdx == Idx("flush")
CheckIdx == Idx("check")
MkdirIdx == Idx("mkdir")
WriteFileIdx == Idx("writeFile")

PollStatuses == {"new", "building", "rebuilding-swarm"}

WaitCmd == cmd \in {"create", "rebuild"}

\* the action of the command has started: the op of line 255 has returned
OpReturned == WaitCmd /\ ClusterClient = "client" /\ pc \notin {"preaction", "action"}

\* the error the op of line 255 returned
OpErr ==
    IF cmd = "create" /\ Nodes < 1 THEN NodesError
    ELSE IF MutIdx # {} THEN trace[CHOOSE i \in MutIdx : TRUE].resp.err
    ELSE NoError

\* the action has returned (or panicked)
Finished == ClusterClient = "client" /\ pc = "done"

----------------------------------------------------------------------------
(* C1 *)

\* C1: in create and rebuild, whatever the wait flag, when the mutating call
\* returns an error and no snapshot, no Get is made, no row is written and
\* the command ends by returning exactly that error.
C1_OpErrorShortCircuits ==
    (OpReturned /\ OpErr # NoError) =>
        /\ GetIdx = {}
        /\ WriteIdx = {}
        /\ pc = "done" => result = OpErr

\* a failed mutating call under --wait has been followed to its end
C1_FailedOpWithWait ==
    OpReturned /\ OpErr # NoError /\ Wait /\ pc = "done"

----------------------------------------------------------------------------
(* C2 *)

\* C2: create with nodes < 1 ends, for every value of the wait flag, by
\* returning "nodes must be >= 1", and calls neither Create nor Get.
C2_NodesValidation ==
    (cmd = "create" /\ Nodes < 1 /\ OpReturned) =>
        /\ ApiIdx({"Create", "Get"}) = {}
        /\ pc = "done" => result = NodesError

----------------------------------------------------------------------------
(* C3 *)

\* C3 as stated: with wait = false and a successful mutating call the events
\* of the action are exactly the mutating call, one write of the row of the
\* snapshot it returned, and one flush.
C3_NoWaitCallWriteFlush ==
    (OpReturned /\ ~Wait /\ OpErr = NoError /\ pc = "done") =>
        /\ Len(trace) = 4
        /\ trace[2].ev = "call" /\ trace[2].api \in {"Create", "Rebuild"}
        /\ trace[3].ev = "write"
        /\ trace[3].row = Row(Deref(trace[2].resp.cluster))
        /\ trace[4].ev = "flush"

\* C3 amended: with wait = false no sleep and no Get ever occurs; after a
\* successful mutating call the events of the action are that one call and one
\* write of the row of the snapshot it returned, followed by one flush when
\* the write succeeded; when the write failed nothing follows and its error is
\* returned.
C3_NoWaitCallWriteThenFlush ==
    (WaitCmd /\ ~Wait) =>
        /\ Idx("sleep") = {} /\ GetIdx = {} /\ CheckIdx = {}
        /\ (OpReturned /\ OpErr = NoError /\ pc = "done") =>
              /\ Len(trace) >= 3
              /\ trace[2].ev = "call" /\ trace[2].api \in {"Create", "Rebuild"}
              /\ trace[3].ev = "write"
              /\ trace[3].row = Row(Deref(trace[2].resp.cluster))
              /\ IF trace[3].err = NoError
                   THEN Len(trace) = 4 /\ trace[4].ev = "flush"
                        /\ result = trace[4].err
                   ELSE Len(trace) = 3 /\ result = trace[3].err

\* a non-terminal snapshot rendered and flushed without waiting
C3_NoWaitRenderedNonTerminal ==
    /\ OpReturned /\ ~Wait /\ pc = "done" /\ result = NoError
    /\ Len(trace) = 4
    /\ trace[3].ev = "write" /\ trace[3].row[5] = "building"
    /\ trace[4].ev = "flush"
    /\ TabWriter.out = << trace[3].row >>

----------------------------------------------------------------------------
(* C4 *)

IsSleep(i, d) == i \in 1..Len(trace) /\ trace[i].ev = "sleep" /\ trace[i].d = d
IsGet(i) == i \in GetIdx
IsPollCheck(i) == i \in CheckIdx /\ trace[i].status \in PollStatuses

\* C4: with wait = true the one grace sleep (40 s) comes after the mutating
\* call and before the first Get; every Get comes right after one poll sleep
\* (10 s) that comes right after one observation of a status in {new, building,
\* rebuilding-swarm}; every such observation is followed by its sleep and its
\* Get, and none is left without them when the command ends.
C4_GraceThenOneGetPerObservation ==
    (WaitCmd /\ Wait) =>
        /\ Cardinality(SleepIdx(40)) <= 1
        /\ \A s \in SleepIdx(40) : \A m \in MutIdx : m < s
        /\ \A g \in GetIdx :
              /\ \E s \in SleepIdx(40) : s < g
              /\ IsSleep(g - 1, 10)
              /\ IsPollCheck(g - 2)
        /\ \A s \in SleepIdx(10) : IsGet(s + 1) /\ IsPollCheck(s - 1)
        /\ \A c \in CheckIdx :
              IsPollCheck(c) =>
                /\ c < Len(trace) => IsSleep(c + 1, 10) /\ IsGet(c + 2)
                /\ pc = "done" => c < Len(trace)
        /\ Cardinality(GetIdx) <= Cardinality({c \in CheckIdx : IsPollCheck(c)})
        /\ pc = "done" =>
              Cardinality(GetIdx) = Cardinality({c \in CheckIdx : IsPollCheck(c)})

\* a wait that polled twice and has ended
C4_PolledTwice ==
    /\ WaitCmd /\ Wait /\ pc = "done"
    /\ Cardinality(GetIdx) = 2
    /\ Cardinality(SleepIdx(10)) = 2
    /\ Cardinality(SleepIdx(40)) = 1

----------------------------------------------------------------------------
(* C5 *)

\* C5: each pass through the loop condition continues exactly when the status
\* of the current snapshot is new, building or rebuilding-swarm, whatever the
\* statuses seen before; on any other status the loop stops at that check and
\* the next thing the command does is to render that same snapshot.
C5_ContinueIffPollStatus ==
    \A c \in CheckIdx :
        /\ trace[c].cont <=> trace[c].status \in PollStatuses
        /\ IF trace[c].status \in PollStatuses
             THEN IF c = Len(trace) THEN pc = "poll" ELSE IsSleep(c + 1, 10)
             ELSE IF c = Len(trace)
                    THEN /\ pc = "output"
                         /\ Deref(cluster).Status = trace[c].status
                    ELSE /\ trace[c + 1].ev = "write"
                         /\ trace[c + 1].row = Row(Deref(cluster))
                         /\ trace[c + 1].row[5] = trace[c].status

\* polling went on over a changed status and over a repeated one, and stopped
\* at an empty status, which was rendered
C5_RepeatedChangedThenUnknown ==
    /\ pc = "done"
    /\ \E c1, c2, c3, c4 \in CheckIdx :
          /\ c1 < c2 /\ c2 < c3 /\ c3 < c4
          /\ trace[c1].status = "new"
          /\ trace[c2].status = "building"
          /\ trace[c3].status = "building"
          /\ trace[c4].status = ""
          /\ c4 < Len(trace) /\ trace[c4 + 1].ev = "write"

----------------------------------------------------------------------------
(* C6 *)

\* C6: with wait = true, a Get that returns an error is the last thing the
\* loop does: no sleep, Get or any other call follows it, no row has been or
\* is written and nothing is flushed, and the command returns that error.
C6_GetErrorEndsLoop ==
    (WaitCmd /\ Wait) =>
        \A g \in GetIdx :
            trace[g].resp.err # NoError =>
                /\ g = Len(trace)
                /\ WriteIdx = {} /\ FlushIdx = {}
                /\ TabWriter = [buf |-> <<>>, out |-> <<>>]
                /\ pc \in {"output", "done", "exited"}
                /\ pc \in {"done", "exited"} => result = trace[g].resp.err

\* the second re-fetch failed after two snapshots had been obtained
C6_SecondGetFailed ==
    /\ WaitCmd /\ Wait /\ pc = "done"
    /\ Cardinality(GetIdx) = 2
    /\ trace[Len(trace)].ev = "call"
    /\ trace[Len(trace)].resp.err = "api-error-2"
    /\ result = "api-error-2"

----------------------------------------------------------------------------
(* C7 *)

\* the status an API call returned
StatusAt(i) == Deref(trace[i].resp.cluster).Status
NoCallFailed == \A i \in CallIdx : trace[i].resp.err = NoError
\* the calls that returned a status outside {new, building, rebuilding-swarm}
TerminalCalls == { i \in CallIdx : StatusAt(i) \notin PollStatuses }
FirstTerminal == CHOOSE i \in TerminalCalls : \A j \in TerminalCalls : i <= j

\* C7: with wait = true and no API error, a command that has ended received a
\* terminal status, and if n statuses of {new, building, rebuilding-swarm} came
\* before the first terminal one it made one grace sleep, n poll sleeps and n
\* Gets, and rendered the snapshot that carried the first terminal status.
C7_SleepsAndGetsCountNonTerminal ==
    (OpReturned /\ Wait /\ OpErr = NoError /\ NoCallFailed /\ pc = "done") =>
        /\ TerminalCalls # {}
        /\ LET n == Cardinality({ i \in CallIdx : i < FirstTerminal }) IN
             /\ Cardinality(SleepIdx(40)) = 1
             /\ Cardinality(SleepIdx(10)) = n
             /\ Cardinality(GetIdx) = n
             /\ Cardinality(WriteIdx) = 1
             /\ \A w \in WriteIdx :
                   trace[w].row = Row(Deref(trace[FirstTerminal].resp.cluster))

\* new, building, building, active: three Gets and the row of the active one
C7_NewBuildingBuildingActive ==
    /\ OpReturned /\ Wait /\ pc = "done" /\ NoCallFailed
    /\ Cardinality(CallIdx) = 4
    /\ \E a, b, c, d \in CallIdx :
          /\ a < b /\ b < c /\ c < d
          /\ StatusAt(a) = "new" /\ StatusAt(b) = "building"
          /\ StatusAt(c) = "building" /\ StatusAt(d) = "active"
    /\ Cardinality(SleepIdx(10)) = 3 /\ Cardinality(SleepIdx(40)) = 1
    /\ \E w \in WriteIdx : trace[w].row[5] = "active"

----------------------------------------------------------------------------
(* C8 *)

ApplyCmd == cmd \in {"get", "delete", "grow"}
ApiOf(c) == CASE c = "get" -> "Get" [] c = "delete" -> "Delete" [] c = "grow" -> "Grow"

\* C8 as stated: get, delete and grow make exactly one API call; when it fails
\* the command returns its error with no row written and no flush; when it
\* succeeds one row is written and then the sink is flushed.
C8_OneCallThenRowAndFlush ==
    (ApplyCmd /\ Finished) =>
        /\ Cardinality(CallIdx) = 1
        /\ trace[2].ev = "call" /\ trace[2].api = ApiOf(cmd)
        /\ IF trace[2].resp.err # NoError
             THEN /\ result = trace[2].resp.err
                  /\ WriteIdx = {} /\ FlushIdx = {}
             ELSE /\ Len(trace) = 4
                  /\ trace[3].ev = "write"
                  /\ trace[4].ev = "flush"

\* C8 amended: get, delete and grow make exactly one API call; when it fails
\* the command returns its error with no row written and no flush; when it
\* succeeds the row of the returned snapshot is written once, and then the
\* sink is flushed if that write succeeded, while a failed write is returned
\* as the error with no flush.
C8_OneCallThenRowThenFlushIfWritten ==
    (ApplyCmd /\ Finished) =>
        /\ Cardinality(CallIdx) = 1
        /\ trace[2].ev = "call" /\ trace[2].api = ApiOf(cmd)
        /\ trace[2].name = ClusterName
        /\ IF trace[2].resp.err # NoError
             THEN /\ result = trace[2].resp.err
                  /\ WriteIdx = {} /\ FlushIdx = {}
                  /\ TabWriter = [buf |-> <<>>, out |-> <<>>]
             ELSE /\ Len(trace) >= 3
                  /\ trace[3].ev = "write"
                  /\ trace[3].row = Row(Deref(trace[2].resp.cluster))
                  /\ IF trace[3].err = NoError
                       THEN /\ Len(trace) = 4 /\ trace[4].ev = "flush"
                            /\ result = trace[4].err
                       ELSE /\ Len(trace) = 3
                            /\ result = trace[3].err

\* grow by 3 against a backend that answers with an error
C8_GrowFailed ==
    /\ cmd = "grow" /\ Nodes = 3 /\ Finished
    /\ trace[2].ev = "call" /\ trace[2].arg.Nodes = 3
    /\ result = "api-error-1"
    /\ TabWriter.out = <<>>

----------------------------------------------------------------------------
(* C9 *)

----------------------------------------------------------------------------
(* C10 *)

\* the same readings of a trace tr
IdxIn(tr, kind) == { i \in 1..Len(tr) : tr[i].ev = kind }
CredsOkIn(tr) ==
    \E i \in IdxIn(tr, "call") :
        tr[i].api = "GetCredentials" /\ tr[i].resp.err = NoError
FilesIn(tr) ==
    Deref(tr[CHOOSE i \in IdxIn(tr, "call") : tr[i].api = "GetCredentials"].resp.creds).Files
IoFailedIn(tr) ==
    \E i \in IdxIn(tr, "mkdir") \cup IdxIn(tr, "writeFile") : tr[i].err # NoError

\* in tr the directory named dir is created before any file is written (the
\* working directory, ".", is there without being created)
DirCreatedFirst(tr, dir) ==
    \/ Clean(dir) = <<".">>
    \/ \E m \in IdxIn(tr, "mkdir") :
          /\ Clean(tr[m].path) = Clean(dir)
          /\ \A w \in IdxIn(tr, "writeFile") : m < w

\* in tr every file of the bundle is written under dir, unchanged, mode 0600
AllFilesWritten(tr, dir) ==
    LET files == FilesIn(tr) IN
    \A f \in DOMAIN files :
        \E w \in IdxIn(tr, "writeFile") :
            /\ Clean(tr[w].path) = Clean(dir \o <<"/">> \o f)
            /\ tr[w].content = files[f]
            /\ tr[w].mode = 384

\* in tr MkdirAll is called on p unless p is ".", before any write; every
\* write is of a file of the bundle, under p, unchanged, with mode 0600; and
\* with no failure every file is written once
CleanDirThenFiles(tr, p, name) ==
    LET files == FilesIn(tr)
        mk == IdxIn(tr, "mkdir")
        wf == IdxIn(tr, "writeFile")
    IN /\ IF p = <<".">>
            THEN mk = {}
            ELSE /\ mk = {3}
                 /\ tr[3].path = p /\ tr[3].mode = 511
                 /\ tr[3].err # NoError => wf = {}
       /\ \A w \in wf :
             /\ \A m \in mk : m < w
             /\ \E f \in DOMAIN files :
                   /\ tr[w].path = Join(p, f)
                   /\ tr[w].content = files[f]
                   /\ tr[w].mode = 384
       /\ ~IoFailedIn(tr) =>
             /\ AllFilesWritten(tr, name)
             /\ Cardinality(wf) = Cardinality(DOMAIN files)

\* credentials runs with no --path and GetCredentials succeeds
DownloadDefaultPath ==
    /\ pc = "action" /\ cmd = "credentials" /\ Path = <<>>
    /\ pc' = "done" /\ CredsOkIn(trace')

\* C10 as stated: credentials with no --path and a successful GetCredentials
\* makes the cluster name the destination, creates that directory before
\* writing any file, and writes every file of the bundle into it with its
\* content unchanged and mode 0600.
C10_DirCreatedAllFilesWritten ==
    [][ DownloadDefaultPath =>
          /\ Path' = ClusterName
          /\ DirCreatedFirst(trace', ClusterName)
          /\ AllFilesWritten(trace', ClusterName) ]_vars

\* C10 amended: credentials with no --path and a successful GetCredentials
\* makes the cluster name the destination and path.Clean of it the directory;
\* unless that directory is "." it calls MkdirAll on it (mode 0777) before
\* writing any file; every file it writes is a file of the bundle, written
\* under that directory with its content unchanged and mode 0600; and when the
\* directory creation and every write succeed, every file of the bundle is
\* written, once.
C10_CleanDirThenFilesUnlessFailure ==
    [][ DownloadDefaultPath =>
          /\ Path' = ClusterName
          /\ CleanDirThenFiles(trace', Clean(ClusterName), ClusterName) ]_vars

\* the three files of a bundle written under the directory a/b
C10_ThreeFilesUnderName ==
    /\ cmd = "credentials" /\ pc = "done" /\ result = NoError
    /\ ClusterName = <<"a", "/", "b">> /\ Path = ClusterName
    /\ MkdirIdx = {3} /\ trace[3].path = <<"a", "/", "b">>
    /\ Cardinality(WriteFileIdx) = 3
    /\ \E w \in WriteFileIdx :
          trace[w].path = <<"a", "/", "b", "/", "k">> /\ trace[w].content = "y"

----------------------------------------------------------------------------
(* C11 *)

\* the action of credentials has returned
DownloadReturned ==
    cmd = "credentials" /\ ClusterClient = "client" /\ pc \in {"done", "exited"}

HintIdx == Idx("hint")

\* C11: in credentials, when GetCredentials fails nothing else is done, no
\* directory is created, no file is written and that error is returned; when
\* the directory creation fails no file is written and that error is
\* returned; when the write of a file fails it is the last thing the command
\* does: no later file is written, the writes before it succeeded, were of
\* other files and are not undone, its error is returned, the sourcing hint is
\* not printed and the sink is neither flushed nor written.
C11_FailureStopsDownload ==
    DownloadReturned =>
        /\ trace[2].ev = "call" /\ trace[2].api = "GetCredentials"
        /\ trace[2].resp.err # NoError =>
              /\ Len(trace) = 2
              /\ result = trace[2].resp.err
              /\ TabWriter = [buf |-> <<>>, out |-> <<>>]
        /\ \A m \in MkdirIdx :
              trace[m].err # NoError =>
                /\ m = Len(trace)
                /\ WriteFileIdx = {}
                /\ result = trace[m].err
                /\ TabWriter = [buf |-> <<>>, out |-> <<>>]
        /\ \A w \in WriteFileIdx :
              trace[w].err # NoError =>
                /\ w = Len(trace)
                /\ \A i \in 1..(w - 1) :
                      /\ trace[i].ev \in {"auth", "call", "mkdir", "writeFile"}
                      /\ trace[i].ev = "writeFile" =>
                            /\ trace[i].err = NoError
                            /\ trace[i].path # trace[w].path
                /\ result = trace[w].err
                /\ HintIdx = {} /\ FlushIdx = {} /\ WriteIdx = {}
                /\ TabWriter = [buf |-> <<>>, out |-> <<>>]

\* the second file of a bundle could not be written after the first had been
C11_SecondFileFailed ==
    /\ DownloadReturned
    /\ Cardinality(WriteFileIdx) = 2
    /\ trace[Len(trace)].ev = "writeFile"
    /\ trace[Len(trace)].err = FileError
    /\ trace[Len(trace) - 1].ev = "writeFile"
    /\ trace[Len(trace) - 1].err = NoError
    /\ result = FileError

----------------------------------------------------------------------------
(* C12 *)

AuthIdx == Idx("auth")

\* C12: for every command the authentication pre-action is the first thing
\* that happens and it happens once, before the action; when it fails the
\* action never runs: nothing follows it, so no List, Get, Create, Grow,
\* Rebuild, Delete or GetCredentials call, no sleep and no row write occurs,
\* and its error is what the command ends with.
C12_AuthBeforeAction ==
    /\ pc = "preaction" => trace = <<>>
    /\ pc # "preaction" =>
          /\ AuthIdx = {1}
          /\ trace[1].err = NoError <=> ClusterClient = "client"
          /\ trace[1].err # NoError =>
                /\ Len(trace) = 1
                /\ CallIdx = {} /\ Idx("sleep") = {} /\ WriteIdx = {}
                /\ TabWriter = [buf |-> <<>>, out |-> <<>>]
                /\ pc \in {"done", "exited"}
                /\ result = trace[1].err

\* a waiting command whose authentication failed has exited
C12_AuthFailedExited ==
    /\ WaitCmd /\ Wait
    /\ pc = "exited"
    /\ trace = << [ev |-> "auth", err |-> AuthError] >>
    /\ ExitCode(result) = 1

----------------------------------------------------------------------------
(* C13 *)

\* C13 as stated: after argument parsing no pre-action and no action changes
\* a field of the command descriptor: cluster name, wait flag, node count,
\* autoscale flag, destination path, API-client reference.
C13_DescriptorNeverMutated ==
    [][ UNCHANGED <<descriptor, ClusterClient>> ]_vars

\* the step of Download in which GetCredentials succeeds
DownloadCredsOk ==
    /\ pc = "action" /\ cmd = "credentials"
    /\ pc' = "done" /\ CredsOkIn(trace')

\* C13 amended: no pre-action and no action changes the command, the cluster
\* name, the wait flag, the node count or the autoscale flag; the API-client
\* reference is assigned by the Auth pre-action and by nothing after it; the
\* destination path is assigned only by the action of credentials, only after
\* GetCredentials succeeded and only when it is empty, and it then becomes
\* the cluster name; a given --path is never changed.
C13_OnlyClientAndEmptyPathAssigned ==
    [][ /\ UNCHANGED <<cmd, ClusterName, Wait, Nodes, AutoScale>>
        /\ ClusterClient' # ClusterClient => pc = "preaction"
        /\ pc # "preaction" => ClusterClient' = ClusterClient
        /\ Path' # Path => DownloadCredsOk /\ Path = <<>>
        /\ DownloadCredsOk =>
              Path' = (IF Path = <<>> THEN ClusterName ELSE Path) ]_vars

\* credentials has put the cluster name in the destination path of its
\* descriptor, and then failed to create the directory
C13_PathSetToName ==
    /\ cmd = "credentials" /\ pc = "done"
    /\ ClusterClient = "client"
    /\ ClusterName = <<"a">> /\ Path = ClusterName
    /\ result = MkdirError

----------------------------------------------------------------------------
(* C14 *)

\* C14: in every invocation the sink is used sequentially: every row write
\* comes before the flush, no row is written after a flush, and by the time
\* the process has exited the sink has been flushed exactly once, by the
\* command when it succeeds and by the termination handler when an error is
\* propagated.
C14_FlushedExactlyOnce ==
    /\ \A w \in WriteIdx : \A f \in FlushIdx : w < f
    /\ pc = "exited" => Cardinality(FlushIdx) = 1

----------------------------------------------------------------------------
(* C15 *)

\* create or rebuild runs with wait = true and its mutating call succeeded
WaitOpOk == OpReturned /\ Wait /\ OpErr = NoError

\* the backend has delivered a terminal status or an error to the loop
Delivered ==
    WaitOpOk /\ (err # NoError \/ Deref(cluster).Status \notin PollStatuses)

\* the action has returned
Returned == WaitOpOk /\ pc \in {"done", "exited"}

\* one more pass of the loop on a non-terminal answer
PollOn ==
    PollLive /\ pc' = "check" /\ Deref(cluster').Status \in PollStatuses

\* C15: for create and rebuild with wait = true and a successful mutating
\* call, the command returns only if the backend has delivered a terminal
\* status or a Get error, and once the backend has delivered one the command
\* does return; as long as every answer is non-terminal the command stays in
\* the loop, writes no row and does not return, and however many passes the
\* loop has made it makes one more on a non-terminal answer: there is no
\* iteration cap and no deadline.
C15_ReturnsIffDelivered ==
    /\ [](Returned => Delivered)
    /\ Delivered ~> Returned
    /\ []((WaitOpOk /\ ~Delivered) =>
            /\ pc \in {"grace", "check", "poll"}
            /\ WriteIdx = {} /\ FlushIdx = {}
            /\ TabWriter = [buf |-> <<>>, out |-> <<>>])
    /\ [](pc = "poll" => ENABLED PollOn)

\* the loop is still polling after more re-fetches than the trace keeps, all
\* of them answered with a non-terminal status
C15_StillPolling ==
    /\ WaitOpOk /\ ~Delivered
    /\ pc = "poll"
    /\ NumGets = MaxLogged /\ NumChecks = MaxLogged + 1
    /\ \E g \in GetIdx :
          /\ \A h \in GetIdx : h <= g
          /\ trace[g].resp.cluster # cluster

----------------------------------------------------------------------------
(* C16 *)

\* C16 as stated: once the action of create or rebuild has run its mutating
\* operation, Create or Rebuild has been called exactly once, it is the first
\* API call, and every other API call is a Get for the cluster name passed to
\* it.
C16_MutatingCallExactlyOnce ==
    OpReturned =>
        /\ Cardinality(MutIdx) = 1
        /\ \A m \in MutIdx :
              /\ \A i \in CallIdx : m <= i
              /\ \A i \in CallIdx \ {m} :
                    trace[i].api = "Get" /\ trace[i].name = trace[m].name

\* C16 amended: in create and rebuild no API call is made before the action
\* runs its mutating operation; create with a node count below 1 makes no API
\* call at all; otherwise the operation makes its call, Create for create and
\* Rebuild for rebuild, on the cluster name of the command, exactly once, as
\* the first API call, and never again whatever the wait flag, the statuses
\* and the errors; every later API call is a Get for that same cluster name.
C16_MutatingCallOnceUnlessRejected ==
    WaitCmd =>
        /\ ~OpReturned => CallIdx = {}
        /\ OpReturned =>
              IF cmd = "create" /\ Nodes < 1
                THEN CallIdx = {}
                ELSE /\ MutIdx = {2}
                     /\ trace[2].api = (IF cmd = "create" THEN "Create" ELSE "Rebuild")
                     /\ trace[2].name = ClusterName
                     /\ \A i \in CallIdx \ {2} :
                           /\ i > 2
                           /\ trace[i].api = "Get"
                           /\ trace[i].name = trace[2].name

\* create has re-fetched twice after its one Create call and has rendered
C16_CreateThenTwoGets ==
    /\ cmd = "create" /\ Wait /\ pc = "done" /\ result = NoError
    /\ MutIdx = {2} /\ trace[2].api = "Create"
    /\ Cardinality(GetIdx) = 2
    /\ Cardinality(CallIdx) = 3

----------------------------------------------------------------------------
(* C17 *)

\* the mutating call succeeded with a snapshot whose status is terminal
InitialTerminal ==
    /\ MutIdx = {2}
    /\ trace[2].resp.err = NoError
    /\ Deref(trace[2].resp.cluster).Status \notin PollStatuses

\* C17: for create and rebuild with wait = true the grace sleep of 40 s is
\* taken once the mutating operation has returned, whatever it returned, and
\* is taken exactly once, before anything else; when the snapshot the
\* mutating call returned already has a terminal status the command makes no
\* Get and no poll-interval sleep, and after the grace sleep it renders that
\* initial snapshot.
C17_GraceSleepUnconditionalOnce ==
    (WaitCmd /\ Wait) =>
        /\ Cardinality(SleepIdx(40)) <= 1
        /\ (OpReturned /\ pc # "grace") =>
              /\ Cardinality(SleepIdx(40)) = 1
              /\ \A s \in SleepIdx(40) :
                    /\ s = Cardinality(MutIdx) + 2
                    /\ \A i \in 1..(s - 1) : trace[i].ev \in {"auth", "call"}
        /\ (OpReturned /\ InitialTerminal) =>
              /\ GetIdx = {} /\ SleepIdx(10) = {}
              /\ pc \in {"grace", "check", "output", "done", "exited"}
              /\ pc \in {"done", "exited"} =>
                    /\ SleepIdx(40) = {3}
                    /\ 5 \in WriteIdx /\ Cardinality(WriteIdx) = 1
                    /\ trace[5].row = Row(Deref(trace[2].resp.cluster))

\* rebuild --wait got an active cluster from Rebuild, slept the grace
\* interval all the same, and rendered that cluster without a re-fetch
C17_ActiveAtOnceStillSlept ==
    /\ cmd = "rebuild" /\ Wait /\ pc = "done" /\ result = NoError
    /\ InitialTerminal
    /\ Deref(trace[2].resp.cluster).Status = "active"
    /\ trace[3] = EvSleep(40)
    /\ GetIdx = {} /\ WriteIdx = {5} /\ FlushIdx = {6}

----------------------------------------------------------------------------
(* C18 *)

\* the last API call before position w of the trace
LastCallBefore(w) ==
    CHOOSE c \in CallIdx : c < w /\ \A d \in CallIdx : d < w => d <= c

\* C18: whenever create or rebuild writes a row, an API call came before it,
\* the most recent one succeeded and the row is the rendering of the snapshot
\* that call returned, never of an earlier one; no API call follows the
\* write; with wait = true the status in the row is none of new, building,
\* rebuilding-swarm; and at most one row is written per invocation.
C18_RowIsLatestSnapshot ==
    WaitCmd =>
        /\ Cardinality(WriteIdx) <= 1
        /\ \A w \in WriteIdx :
              /\ \E c \in CallIdx : c < w
              /\ \A c \in CallIdx : c < w
              /\ trace[LastCallBefore(w)].resp.err = NoError
              /\ trace[w].row = Row(Deref(trace[LastCallBefore(w)].resp.cluster))
              /\ trace[w].row[5] = Deref(trace[LastCallBefore(w)].resp.cluster).Status
              /\ Wait => trace[w].row[5] \notin PollStatuses

\* create --wait has rendered the snapshot of its second re-fetch, which
\* differs from the two snapshots before it
C18_RenderedSecondRefetch ==
    /\ cmd = "create" /\ Wait /\ pc = "done"
    /\ Cardinality(GetIdx) = 2 /\ Cardinality(WriteIdx) = 1
    /\ \E w \in WriteIdx :
          /\ trace[w].row[5] = "error"
          /\ \A c \in CallIdx \ {LastCallBefore(w)} :
                trace[w].row # Row(Deref(trace[c].resp.cluster))

====
